---------------------------- MODULE Spec2Model ----------------------------
(***************************************************************************)
(* Model of scripts/plot.py: a straight-line batch script that enumerates  *)
(* the CSV files of a directory, pools their memory and swap samples,      *)
(* draws one combined chart with per-timestamp means, and then one         *)
(* active/inactive chart per CSV file.                                     *)
(*                                                                         *)
(* Values in MB are exact rationals <<numerator, denominator>> in lowest   *)
(* terms.  Byte counts are integers and 1024*1024 is a power of two, so    *)
(* the float64 quotients and their sums are exact for the inputs used.     *)
(***************************************************************************)
EXTENDS Integers, Sequences, FiniteSets, TLC

VARIABLES fs, csv_files, pc, i, all_points, all_swap_points,
          mem_x, mem_y, swap_x, swap_y,
          mem_mean_x, mem_mean_y, swap_mean_x, swap_mean_y,
          series, figures, written, error

vars == <<fs, csv_files, pc, i, all_points, all_swap_points,
          mem_x, mem_y, swap_x, swap_y,
          mem_mean_x, mem_mean_y, swap_mean_x, swap_mean_y,
          series, figures, written, error>>

(***************************************************************************)
(* Bounds of the explored inputs.                                          *)
(***************************************************************************)
MaxFiles == 2
MaxRows == 3

(***************************************************************************)
(* Program constants.                                                      *)
(***************************************************************************)
csv_dir == "."
BytesPerMB == 1024 * 1024
Columns == {"timestamp", "current_memory_usage", "current_swap_usage",
            "active_anon", "inactive_anon", "active_file", "inactive_file"}
LoadColumns == <<"timestamp", "current_memory_usage", "current_swap_usage">>
ChartColumns == <<"timestamp", "active_anon", "inactive_anon",
                  "active_file", "inactive_file">>

(***************************************************************************)
(* Helpers on sequences and sets.                                          *)
(***************************************************************************)
Range(s) == {s[k] : k \in DOMAIN s}

Injective(s) == \A a, b \in DOMAIN s : s[a] = s[b] => a = b

Orderings(S) == {s \in [1..Cardinality(S) -> S] : Injective(s)}

SetMin(S) == CHOOSE m \in S : \A n \in S : m <= n

RECURSIVE Sorted(_)
Sorted(S) == IF S = {} THEN <<>>
             ELSE <<SetMin(S)>> \o Sorted(S \ {SetMin(S)})

Zip(a, b) ==
  LET n == IF Len(a) <= Len(b) THEN Len(a) ELSE Len(b)
  IN  [k \in 1..n |-> <<a[k], b[k]>>]

(***************************************************************************)
(* Exact arithmetic standing for the float64 operations of the script.     *)
(***************************************************************************)
RECURSIVE GCD(_, _)
GCD(a, b) == IF b = 0 THEN a ELSE GCD(b, a % b)

Norm(q) == IF q[1] = 0 THEN <<0, 1>>
           ELSE LET g == GCD(q[1], q[2]) IN <<q[1] \div g, q[2] \div g>>

RAdd(p, q) == Norm(<<p[1] * q[2] + q[1] * p[2], p[2] * q[2]>>)

RDivInt(p, n) == Norm(<<p[1], p[2] * n>>)

\* variant: the divisor of a kilobyte conversion
ToMB_KB(bytes) == Norm(<<bytes, 1024>>)

ToMB(bytes) == Norm(<<bytes, BytesPerMB>>)

RECURSIVE Sum(_)
Sum(l) == IF l = <<>> THEN <<0, 1>> ELSE RAdd(Sum(SubSeq(l, 1, Len(l) - 1)), l[Len(l)])

Mean(l) == RDivInt(Sum(l), Len(l))

(***************************************************************************)
(* Paths and the directory.                                                *)
(***************************************************************************)
Path(d, stem, ext) == [dir |-> d, stem |-> stem, ext |-> ext]

Glob(files, d) == {p \in DOMAIN files : p.dir = d /\ p.ext = ".csv"}

CombinedImage == Path(csv_dir, "mem_swap_vs_time", ".png")

\* variant: the stem of the CSV file is left out of the image name
PerFileImage_NoStem(csv_file) == Path(csv_file.dir, "_active_inactive", ".png")

PerFileImage(csv_file) == Path(csv_file.dir, csv_file.stem \o "_active_inactive", ".png")

Basename(p) == p.stem \o p.ext

(***************************************************************************)
(* Data frames.                                                            *)
(***************************************************************************)
HasColumn(df, c) == c \in df.columns

Column(df, c) == [k \in 1..Len(df.rows) |-> df.rows[k][c]]

ColumnMB(df, c) == [k \in 1..Len(df.rows) |-> ToMB(df.rows[k][c])]

\* variant: the frame is first re-indexed on the grid {0, 1}, absent
\* timestamps filled with zero
Samples_ZeroFill(df, c) ==
  LET absent == Sorted({0, 1} \ Range(Column(df, "timestamp")))
  IN  Zip(Column(df, "timestamp"), ColumnMB(df, c)) \o
      [k \in DOMAIN absent |-> <<absent[k], <<0, 1>> >>]

Samples(df, c) == Zip(Column(df, "timestamp"), ColumnMB(df, c))

(***************************************************************************)
(* Aggregation by exact timestamp.                                         *)
(***************************************************************************)
\* variant: a plain assignment in place of append, the last sample wins
RECURSIVE Group_Overwrite(_, _)
Group_Overwrite(points, d) ==
  IF points = <<>> THEN d
  ELSE LET x == Head(points)[1]
           y == Head(points)[2]
       IN  Group_Overwrite(Tail(points),
                 IF x \in DOMAIN d THEN [d EXCEPT ![x] = <<y>>]
                 ELSE d @@ (x :> <<y>>))

RECURSIVE Group(_, _)
Group(points, d) ==
  IF points = <<>> THEN d
  ELSE LET x == Head(points)[1]
           y == Head(points)[2]
       IN  Group(Tail(points),
                 IF x \in DOMAIN d THEN [d EXCEPT ![x] = Append(@, y)]
                 ELSE d @@ (x :> <<y>>))

\* variant: the keys in insertion order, without sorted()
RECURSIVE FirstSeen(_, _)
FirstSeen(points, seen) ==
  IF points = <<>> THEN seen
  ELSE FirstSeen(Tail(points),
                 IF Head(points)[1] \in Range(seen) THEN seen
                 ELSE Append(seen, Head(points)[1]))

MeanX_Unsorted(points) == FirstSeen(points, <<>>)

MeanX(points) == Sorted(DOMAIN Group(points, <<>>))

MeanY(points) ==
  LET d == Group(points, <<>>)
      xs == MeanX(points)
  IN  [k \in 1..Len(xs) |-> Mean(d[xs[k]])]

(***************************************************************************)
(* Input directories explored.                                             *)
(***************************************************************************)
Row(t, m, s) == [timestamp |-> t, current_memory_usage |-> m,
                 current_swap_usage |-> s, active_anon |-> s,
                 inactive_anon |-> 0, active_file |-> s, inactive_file |-> 0]

RowA == Row(0, 1048576, 0)
RowB == Row(1, 2097152, 1048576)
RowC == Row(0, 2097152, 1048576)
SampleRows == {RowA, RowB, RowC}

Frame(rows) == [kind |-> "csv", columns |-> Columns, rows |-> rows]

Drop(df, c) ==
  [kind |-> "csv", columns |-> df.columns \ {c},
   rows |-> [k \in 1..Len(df.rows) |->
               [col \in df.columns \ {c} |-> df.rows[k][col]]]]

WellFormed(m) == {Frame(rows) : rows \in UNION {[1..n -> SampleRows] : n \in 1..m}}

Malformed == {Drop(Frame(<<RowA>>), c) : c \in Columns}

Frames(m) == WellFormed(m) \cup Malformed

Stems == <<"mem_swap_vs_time", "a", "b">>

OtherFiles ==
  (Path(csv_dir, "notes", ".txt") :> [kind |-> "text"]) @@
  (Path(csv_dir, "mem_swap_vs_time", ".png") :> [kind |-> "png", title |-> "stale"]) @@
  (Path("sub", "nested", ".csv") :> Frame(<<RowB>>))

RECURSIVE TotalRows(_)
TotalRows(csvs) ==
  IF DOMAIN csvs = {} THEN 0
  ELSE LET p == CHOOSE p \in DOMAIN csvs : TRUE
       IN  Len(csvs[p].rows) + TotalRows([q \in DOMAIN csvs \ {p} |-> csvs[q]])

\* up to MaxFiles CSV files holding up to MaxRows rows between them
InputDirs ==
  {OtherFiles @@ csvs :
     csvs \in UNION {{c \in [{Path(csv_dir, Stems[k], ".csv") : k \in 1..n}
                              -> Frames(MaxRows - (n - 1))] :
                        TotalRows(c) <= MaxRows} :
                     n \in {m \in 0..MaxFiles : m <= Len(Stems) /\ m <= MaxRows}}}

(***************************************************************************)
(* The script.                                                             *)
(***************************************************************************)
Init ==
  /\ fs \in InputDirs
  /\ csv_files = <<>>
  /\ pc = "glob"
  /\ i = 0
  /\ all_points = <<>>
  /\ all_swap_points = <<>>
  /\ mem_x = <<>> /\ mem_y = <<>> /\ swap_x = <<>> /\ swap_y = <<>>
  /\ mem_mean_x = <<>> /\ mem_mean_y = <<>>
  /\ swap_mean_x = <<>> /\ swap_mean_y = <<>>
  /\ series = <<>>
  /\ figures = <<>>
  /\ written = <<>>
  /\ error = "none"

Raise(e) == pc' = "failed" /\ error' = e

\* line 10: glob returns the matching files in arbitrary order
EnumerateFiles ==
  /\ pc = "glob"
  /\ \E order \in Orderings(Glob(fs, csv_dir)) : csv_files' = order
  /\ pc' = "load"
  /\ i' = 1
  /\ UNCHANGED <<fs, all_points, all_swap_points, mem_x, mem_y, swap_x, swap_y,
                 mem_mean_x, mem_mean_y, swap_mean_x, swap_mean_y,
                 series, figures, written, error>>

\* lines 15-21, one iteration on a file that has the three columns
LoadFile ==
  /\ pc = "load"
  /\ i <= Len(csv_files)
  /\ LET df == fs[csv_files[i]] IN
       /\ \A k \in DOMAIN LoadColumns : HasColumn(df, LoadColumns[k])
       /\ all_points' = all_points \o Samples(df, "current_memory_usage")
       /\ all_swap_points' = all_swap_points \o Samples(df, "current_swap_usage")
  /\ i' = i + 1
  /\ UNCHANGED <<fs, csv_files, pc, mem_x, mem_y, swap_x, swap_y,
                 mem_mean_x, mem_mean_y, swap_mean_x, swap_mean_y,
                 series, figures, written, error>>

\* variant: the lookup error is swallowed and the file skipped
LoadFileFail_Skip ==
  /\ pc = "load"
  /\ i <= Len(csv_files)
  /\ \E k \in DOMAIN LoadColumns : ~HasColumn(fs[csv_files[i]], LoadColumns[k])
  /\ i' = i + 1
  /\ UNCHANGED <<fs, csv_files, pc, all_points, all_swap_points,
                 mem_x, mem_y, swap_x, swap_y,
                 mem_mean_x, mem_mean_y, swap_mean_x, swap_mean_y,
                 series, figures, written, error>>

\* lines 16-19, a column lookup raises and nothing catches it
LoadFileFail ==
  /\ pc = "load"
  /\ i <= Len(csv_files)
  /\ \E k \in DOMAIN LoadColumns : ~HasColumn(fs[csv_files[i]], LoadColumns[k])
  /\ Raise("ColumnNotFoundError")
  /\ UNCHANGED <<fs, csv_files, i, all_points, all_swap_points,
                 mem_x, mem_y, swap_x, swap_y,
                 mem_mean_x, mem_mean_y, swap_mean_x, swap_mean_y,
                 series, figures, written>>

\* lines 23-24 on a non-empty pool
Unpack ==
  /\ pc = "load"
  /\ i > Len(csv_files)
  /\ all_points # <<>>
  /\ mem_x' = [k \in DOMAIN all_points |-> all_points[k][1]]
  /\ mem_y' = [k \in DOMAIN all_points |-> all_points[k][2]]
  /\ swap_x' = [k \in DOMAIN all_swap_points |-> all_swap_points[k][1]]
  /\ swap_y' = [k \in DOMAIN all_swap_points |-> all_swap_points[k][2]]
  /\ pc' = "combined_open"
  /\ UNCHANGED <<fs, csv_files, i, all_points, all_swap_points,
                 mem_mean_x, mem_mean_y, swap_mean_x, swap_mean_y,
                 series, figures, written, error>>

\* variant: an empty pool is guarded and the script goes on with empty series
UnpackFail_Guarded ==
  /\ pc = "load"
  /\ i > Len(csv_files)
  /\ all_points = <<>>
  /\ pc' = "combined_open"
  /\ UNCHANGED <<fs, csv_files, i, all_points, all_swap_points,
                 mem_x, mem_y, swap_x, swap_y,
                 mem_mean_x, mem_mean_y, swap_mean_x, swap_mean_y,
                 series, figures, written, error>>

\* line 23 on an empty pool: zip() yields nothing to unpack
UnpackFail ==
  /\ pc = "load"
  /\ i > Len(csv_files)
  /\ all_points = <<>>
  /\ Raise("ValueError")
  /\ UNCHANGED <<fs, csv_files, i, all_points, all_swap_points,
                 mem_x, mem_y, swap_x, swap_y,
                 mem_mean_x, mem_mean_y, swap_mean_x, swap_mean_y,
                 series, figures, written>>

CombinedTitle == "Memoire (MB) et swap (MB) en fonction du temps (tous CSV)"

Draw(artist) ==
  figures' = [figures EXCEPT ![Len(figures)].artists = Append(@, artist)]

SaveFig(img_file) ==
  /\ fs' = [p \in DOMAIN fs \cup {img_file} |->
              IF p = img_file
              THEN [kind |-> "png", title |-> figures'[Len(figures')].title]
              ELSE fs[p]]
  /\ written' = Append(written, img_file)

\* variant: the figure is never closed
CloseFig_Noop == figures' = figures

CloseFig == figures' = SubSeq(figures, 1, Len(figures) - 1)

\* lines 26-29: open the combined figure and scatter the memory samples
OpenCombined ==
  /\ pc = "combined_open"
  /\ figures' = Append(figures,
       [title |-> "", artists |-> <<[kind |-> "scatter", x |-> mem_x, y |-> mem_y]>>])
  /\ pc' = "agg_mem"
  /\ UNCHANGED <<fs, csv_files, i, all_points, all_swap_points,
                 mem_x, mem_y, swap_x, swap_y,
                 mem_mean_x, mem_mean_y, swap_mean_x, swap_mean_y,
                 series, written, error>>

\* lines 31-37: mean memory per timestamp, drawn as a line
AggregateMem ==
  /\ pc = "agg_mem"
  /\ mem_mean_x' = MeanX(all_points)
  /\ mem_mean_y' = MeanY(all_points)
  /\ Draw([kind |-> "line", x |-> mem_mean_x', y |-> mem_mean_y'])
  /\ pc' = "agg_swap"
  /\ UNCHANGED <<fs, csv_files, i, all_points, all_swap_points,
                 mem_x, mem_y, swap_x, swap_y, swap_mean_x, swap_mean_y,
                 series, written, error>>

\* lines 44-53: swap scatter and mean swap per timestamp on the second axis
AggregateSwap ==
  /\ pc = "agg_swap"
  /\ swap_mean_x' = MeanX(all_swap_points)
  /\ swap_mean_y' = MeanY(all_swap_points)
  /\ figures' = [figures EXCEPT ![Len(figures)].artists =
                   @ \o <<[kind |-> "scatter", x |-> swap_x, y |-> swap_y],
                          [kind |-> "line", x |-> swap_mean_x', y |-> swap_mean_y']>>]
  /\ pc' = "combined_save"
  /\ UNCHANGED <<fs, csv_files, i, all_points, all_swap_points,
                 mem_x, mem_y, swap_x, swap_y, mem_mean_x, mem_mean_y,
                 series, written, error>>

\* variant: the savefig call of the combined figure is missing
SaveCombined_NoSave ==
  /\ pc = "combined_save"
  /\ figures' = [figures EXCEPT ![Len(figures)].title = CombinedTitle]
  /\ pc' = "combined_close"
  /\ UNCHANGED <<fs, csv_files, i, all_points, all_swap_points,
                 mem_x, mem_y, swap_x, swap_y,
                 mem_mean_x, mem_mean_y, swap_mean_x, swap_mean_y,
                 series, written, error>>

\* lines 58-63: title the combined figure and save it in the CSV directory
SaveCombined ==
  /\ pc = "combined_save"
  /\ figures' = [figures EXCEPT ![Len(figures)].title = CombinedTitle]
  /\ SaveFig(CombinedImage)
  /\ pc' = "combined_close"
  /\ UNCHANGED <<csv_files, i, all_points, all_swap_points,
                 mem_x, mem_y, swap_x, swap_y,
                 mem_mean_x, mem_mean_y, swap_mean_x, swap_mean_y,
                 series, error>>

\* line 64; the per-file loop of line 66 starts at the first file
CloseCombined ==
  /\ pc = "combined_close"
  /\ CloseFig
  /\ i' = 1
  /\ pc' = "chart"
  /\ UNCHANGED <<fs, csv_files, all_points, all_swap_points,
                 mem_x, mem_y, swap_x, swap_y,
                 mem_mean_x, mem_mean_y, swap_mean_x, swap_mean_y,
                 series, written, error>>

\* lines 67-72 on a file that has the five charted columns
ReadChartColumns ==
  /\ pc = "chart"
  /\ i <= Len(csv_files)
  /\ LET df == fs[csv_files[i]] IN
       /\ \A k \in DOMAIN ChartColumns : HasColumn(df, ChartColumns[k])
       /\ series' = [k \in DOMAIN ChartColumns |->
                       IF k = 1 THEN Column(df, ChartColumns[k])
                       ELSE ColumnMB(df, ChartColumns[k])]
  /\ pc' = "chart_plot"
  /\ UNCHANGED <<fs, csv_files, i, all_points, all_swap_points,
                 mem_x, mem_y, swap_x, swap_y,
                 mem_mean_x, mem_mean_y, swap_mean_x, swap_mean_y,
                 figures, written, error>>

\* lines 67-72, a column lookup raises and nothing catches it
ReadChartColumnsFail ==
  /\ pc = "chart"
  /\ i <= Len(csv_files)
  /\ \E k \in DOMAIN ChartColumns : ~HasColumn(fs[csv_files[i]], ChartColumns[k])
  /\ Raise("ColumnNotFoundError")
  /\ UNCHANGED <<fs, csv_files, i, all_points, all_swap_points,
                 mem_x, mem_y, swap_x, swap_y,
                 mem_mean_x, mem_mean_y, swap_mean_x, swap_mean_y,
                 series, figures, written>>

\* lines 74-84: a new figure with the four lines, titled with the file name
PlotChart ==
  /\ pc = "chart_plot"
  /\ figures' = Append(figures,
       [title |-> Basename(csv_files[i]),
        artists |-> [k \in 1..4 |-> [kind |-> "line", x |-> series[1], y |-> series[k + 1]]]])
  /\ pc' = "chart_save"
  /\ UNCHANGED <<fs, csv_files, i, all_points, all_swap_points,
                 mem_x, mem_y, swap_x, swap_y,
                 mem_mean_x, mem_mean_y, swap_mean_x, swap_mean_y,
                 series, written, error>>

\* variant: the savefig call of the per-file figure is missing
SaveChart_NoSave ==
  /\ pc = "chart_save"
  /\ pc' = "chart_close"
  /\ UNCHANGED <<fs, csv_files, i, all_points, all_swap_points,
                 mem_x, mem_y, swap_x, swap_y,
                 mem_mean_x, mem_mean_y, swap_mean_x, swap_mean_y,
                 series, figures, written, error>>

\* lines 86-87
SaveChart ==
  /\ pc = "chart_save"
  /\ figures' = figures
  /\ SaveFig(PerFileImage(csv_files[i]))
  /\ pc' = "chart_close"
  /\ UNCHANGED <<csv_files, i, all_points, all_swap_points,
                 mem_x, mem_y, swap_x, swap_y,
                 mem_mean_x, mem_mean_y, swap_mean_x, swap_mean_y,
                 series, error>>

\* line 88, then on to the next file
CloseChart ==
  /\ pc = "chart_close"
  /\ CloseFig
  /\ i' = i + 1
  /\ pc' = "chart"
  /\ UNCHANGED <<fs, csv_files, all_points, all_swap_points,
                 mem_x, mem_y, swap_x, swap_y,
                 mem_mean_x, mem_mean_y, swap_mean_x, swap_mean_y,
                 series, written, error>>

\* the loop of line 66 is exhausted: the script ends normally
Finish ==
  /\ pc = "chart"
  /\ i > Len(csv_files)
  /\ pc' = "done"
  /\ UNCHANGED <<fs, csv_files, i, all_points, all_swap_points,
                 mem_x, mem_y, swap_x, swap_y,
                 mem_mean_x, mem_mean_y, swap_mean_x, swap_mean_y,
                 series, figures, written, error>>

Next ==
  \/ EnumerateFiles
  \/ LoadFile
  \/ LoadFileFail
  \/ Unpack
  \/ UnpackFail
  \/ OpenCombined
  \/ AggregateMem
  \/ AggregateSwap
  \/ SaveCombined
  \/ CloseCombined
  \/ ReadChartColumns
  \/ ReadChartColumnsFail
  \/ PlotChart
  \/ SaveChart
  \/ CloseChart
  \/ Finish

Spec == Init /\ [][Next]_vars

(***************************************************************************)
(* Vocabulary of the properties.                                           *)
(***************************************************************************)
Enumerated == pc # "glob"

N == Len(csv_files)

Ended == pc \in {"done", "failed"}

MemAggregated ==
  \/ pc \in {"agg_swap", "combined_save", "combined_close", "chart",
             "chart_plot", "chart_save", "chart_close", "done"}
  \/ pc = "failed" /\ written # <<>>

SwapAggregated == MemAggregated /\ pc # "agg_swap"

\* a path names the active/inactive chart of the given CSV file
IsChartOf(p, csv) ==
  p.dir = csv.dir /\ p.ext = ".png" /\ p.stem = csv.stem \o "_active_inactive"

IsCombined(p) == p.dir = csv_dir /\ p.stem = "mem_swap_vs_time" /\ p.ext = ".png"

ProducedCharts ==
  {p \in Range(written) : \E k \in DOMAIN csv_files : IsChartOf(p, csv_files[k])}

Lacks(df, cols) == \E k \in DOMAIN cols : cols[k] \notin df.columns

TimestampsOf(points) == {points[k][1] : k \in DOMAIN points}

CountAt(points, t) == Cardinality({k \in DOMAIN points : points[k][1] = t})

RECURSIVE SumAt(_, _)
SumAt(points, t) ==
  IF points = <<>> THEN <<0, 1>>
  ELSE IF Head(points)[1] = t
       THEN RAdd(Head(points)[2], SumAt(Tail(points), t))
       ELSE SumAt(Tail(points), t)

\* q is the quotient of the rational s by the positive integer c
IsQuotient(q, s, c) == q[2] > 0 /\ q[1] * s[2] * c = s[1] * q[2]

IsMeanSeries(xs, ys, points) ==
  /\ Len(xs) = Cardinality(TimestampsOf(points))
  /\ Range(xs) = TimestampsOf(points)
  /\ \A k \in 1..(Len(xs) - 1) : xs[k] < xs[k + 1]
  /\ Len(ys) = Len(xs)
  /\ \A k \in DOMAIN xs :
       IsQuotient(ys[k], SumAt(points, xs[k]), CountAt(points, xs[k]))

(***************************************************************************)
(* C1 as stated: whenever a run has ended, by normal completion or by an   *)
(* uncaught failure, the number of per-file images it produced equals the  *)
(* number of CSV files enumerated.                                         *)
(***************************************************************************)
C1_EveryEndedRun == Ended => Cardinality(ProducedCharts) = N

(***************************************************************************)
(* C1 amended: a run that completes has produced exactly one per-file      *)
(* image per enumerated CSV file; a run that ends by an uncaught failure   *)
(* has produced at most that many, and fewer when at least one file was    *)
(* enumerated.                                                             *)
(***************************************************************************)
C1_ChartsPerFile ==
  /\ pc = "done" => Cardinality(ProducedCharts) = N
  /\ pc = "failed" => /\ Cardinality(ProducedCharts) <= N
                      /\ N > 0 => Cardinality(ProducedCharts) < N

C1_Witness == pc = "done" /\ N = 2 /\ Cardinality(ProducedCharts) = N

(***************************************************************************)
(* C2: once computed, the memory mean series and the swap mean series each *)
(* have one entry per distinct pooled timestamp, in strictly ascending     *)
(* order, and the value at t is the sum of the pooled samples at t divided *)
(* by their number.                                                        *)
(***************************************************************************)
C2_MeanPerTimestamp ==
  /\ MemAggregated => IsMeanSeries(mem_mean_x, mem_mean_y, all_points)
  /\ SwapAggregated => IsMeanSeries(swap_mean_x, swap_mean_y, all_swap_points)

\* two files, a timestamp sampled three times with unequal values, and a
\* second timestamp; the pooled mean 5/3 differs from the mean of file means
C2_Witness ==
  /\ SwapAggregated
  /\ N = 2
  /\ Len(mem_mean_x) = 2
  /\ \E t \in Range(mem_mean_x) :
       /\ CountAt(all_points, t) >= 2
       /\ \E a, b \in DOMAIN all_points :
            /\ all_points[a][1] = t /\ all_points[b][1] = t
            /\ all_points[a][2] # all_points[b][2]

(***************************************************************************)
(* C3: the timestamps of each aggregate are exactly the timestamps that    *)
(* occur in some row of some loaded file, and the value at t is the sum of *)
(* the byte values of the rows carrying t, in MB, divided by the number of *)
(* those rows: files without t contribute no sample.                       *)
(***************************************************************************)
RowsOf(k) == fs[csv_files[k]].rows

LoadedTimestamps ==
  UNION {{RowsOf(k)[j]["timestamp"] : j \in DOMAIN RowsOf(k)} : k \in DOMAIN csv_files}

Carriers(t) ==
  UNION {{<<k, j>> : j \in {r \in DOMAIN RowsOf(k) : RowsOf(k)[r]["timestamp"] = t}} :
           k \in DOMAIN csv_files}

RECURSIVE SumBytes(_, _)
SumBytes(S, c) ==
  IF S = {} THEN 0
  ELSE LET e == CHOOSE e \in S : TRUE
       IN  RowsOf(e[1])[e[2]][c] + SumBytes(S \ {e}, c)

IsMeanOfCarriers(xs, ys, c) ==
  /\ Range(xs) = LoadedTimestamps
  /\ Len(ys) = Len(xs)
  /\ \A k \in DOMAIN xs :
       ys[k][1] * BytesPerMB * Cardinality(Carriers(xs[k]))
         = SumBytes(Carriers(xs[k]), c) * ys[k][2]

C3_NoZeroFill ==
  /\ MemAggregated => IsMeanOfCarriers(mem_mean_x, mem_mean_y, "current_memory_usage")
  /\ SwapAggregated => IsMeanOfCarriers(swap_mean_x, swap_mean_y, "current_swap_usage")

\* a timestamp carried by one file and absent from another, with a non-zero mean
C3_Witness ==
  /\ SwapAggregated
  /\ \E t \in LoadedTimestamps : \E a, b \in DOMAIN csv_files :
       /\ Carriers(t) \cap ({a} \X DOMAIN RowsOf(a)) # {}
       /\ Carriers(t) \cap ({b} \X DOMAIN RowsOf(b)) = {}
       /\ SumBytes(Carriers(t), "current_swap_usage") > 0

(***************************************************************************)
(* C4: with no CSV file enumerated the run can only fail at the unpack of  *)
(* the empty pool; the failed state has no successor, no figure was opened *)
(* and no image was written.                                               *)
(***************************************************************************)
C4_EmptyDirectoryFails ==
  (Enumerated /\ N = 0) =>
    /\ pc \in {"load", "failed"}
    /\ pc = "load" => ENABLED UnpackFail /\ ~ENABLED Unpack
    /\ pc = "failed" => error = "ValueError" /\ ~ENABLED Next
    /\ written = <<>>
    /\ figures = <<>>
    /\ \A p \in DOMAIN fs : p.ext = ".png" => fs[p].title = "stale"

C4_Witness == N = 0 /\ pc = "failed" /\ error = "ValueError" /\ written = <<>>

(***************************************************************************)
(* C5: every pooled or charted value is the byte value of its row divided  *)
(* by 1024*1024, and the single file with rows (0, 1048576, 0) and         *)
(* (1, 2097152, 1048576) yields the mean memory series [(0,1), (1,2)] and  *)
(* the mean swap series [(0,0), (1,1)].                                    *)
(***************************************************************************)
Loaded ==
  IF pc = "glob" THEN 0
  ELSE IF pc = "load" \/ (pc = "failed" /\ written = <<>>) THEN i - 1
  ELSE N

RECURSIVE RawPool(_, _)
RawPool(c, m) ==
  IF m = 0 THEN <<>>
  ELSE RawPool(c, m - 1) \o
       [j \in DOMAIN RowsOf(m) |-> <<RowsOf(m)[j]["timestamp"], RowsOf(m)[j][c]>>]

IsMBOf(q, bytes) == q[2] > 0 /\ q[1] * 1048576 = bytes * q[2]

PoolIsMB(points, c) ==
  /\ Len(points) = Len(RawPool(c, Loaded))
  /\ \A j \in DOMAIN points :
       /\ points[j][1] = RawPool(c, Loaded)[j][1]
       /\ IsMBOf(points[j][2], RawPool(c, Loaded)[j][2])

ChartIsMB ==
  pc \in {"chart_plot", "chart_save", "chart_close"} =>
    \A j \in DOMAIN RowsOf(i) :
      /\ series[1][j] = RowsOf(i)[j]["timestamp"]
      /\ IsMBOf(series[2][j], RowsOf(i)[j]["active_anon"])
      /\ IsMBOf(series[3][j], RowsOf(i)[j]["inactive_anon"])
      /\ IsMBOf(series[4][j], RowsOf(i)[j]["active_file"])
      /\ IsMBOf(series[5][j], RowsOf(i)[j]["inactive_file"])

IsScenarioRow(r, t, m, sw) ==
  /\ r["timestamp"] = t
  /\ r["current_memory_usage"] = m
  /\ r["current_swap_usage"] = sw

Scenario ==
  /\ N = 1
  /\ Len(RowsOf(1)) = 2
  /\ IsScenarioRow(RowsOf(1)[1], 0, 1048576, 0)
  /\ IsScenarioRow(RowsOf(1)[2], 1, 2097152, 1048576)

C5_Megabytes ==
  /\ PoolIsMB(all_points, "current_memory_usage")
  /\ PoolIsMB(all_swap_points, "current_swap_usage")
  /\ ChartIsMB
  /\ (SwapAggregated /\ Scenario) =>
       /\ mem_mean_x = <<0, 1>> /\ mem_mean_y = << <<1, 1>>, <<2, 1>> >>
       /\ swap_mean_x = <<0, 1>> /\ swap_mean_y = << <<0, 1>>, <<1, 1>> >>

C5_Witness ==
  /\ pc = "done" /\ Scenario
  /\ mem_mean_y = << <<1, 1>>, <<2, 1>> >>
  /\ all_points = << <<0, <<1, 1>> >>, <<1, <<2, 1>> >> >>

(***************************************************************************)
(* C6: a completed run over N >= 1 files has written exactly N+1 pairwise  *)
(* distinct images in the input directory, mem_swap_vs_time.png and one    *)
(* <stem>_active_inactive.png per CSV file, and no step of any run creates *)
(* another file, or modifies or deletes a file other than the image it     *)
(* saves.                                                                  *)
(***************************************************************************)
ImagesOfCompletedRun ==
  (pc = "done" /\ N >= 1) =>
    /\ Len(written) = N + 1
    /\ Cardinality(Range(written)) = N + 1
    /\ \A p \in Range(written) :
         /\ p.dir = csv_dir
         /\ p \in DOMAIN fs /\ fs[p].kind = "png"
         /\ IsCombined(p) \/ \E k \in DOMAIN csv_files : IsChartOf(p, csv_files[k])
         /\ ~(IsCombined(p) /\ \E k \in DOMAIN csv_files : IsChartOf(p, csv_files[k]))
         /\ \A a, b \in DOMAIN csv_files :
              IsChartOf(p, csv_files[a]) /\ IsChartOf(p, csv_files[b]) => a = b
    /\ \E p \in Range(written) : IsCombined(p)
    /\ \A k \in DOMAIN csv_files : \E p \in Range(written) : IsChartOf(p, csv_files[k])

OnlyImagesTouched ==
  /\ DOMAIN fs \subseteq DOMAIN fs'
  /\ (DOMAIN fs' \ DOMAIN fs) \subseteq Range(written')
  /\ \A p \in DOMAIN fs :
       fs'[p] # fs[p] => p.ext = ".png" /\ p \in Range(written')

C6_ImageFiles == [](ImagesOfCompletedRun) /\ [][OnlyImagesTouched]_vars

C6_Witness ==
  /\ pc = "done" /\ N = 2
  /\ \E k \in DOMAIN csv_files : csv_files[k].stem = "mem_swap_vs_time"
  /\ Cardinality(Range(written)) = 3

(***************************************************************************)
(* C7: when an enumerated file lacks one of the seven columns the run      *)
(* never completes; it fails with the lookup error at that very file, no   *)
(* file lacking a needed column is passed over in either loop, and the     *)
(* failed state has no successor.                                          *)
(***************************************************************************)
InChartLoop == pc \in {"chart", "chart_plot", "chart_save", "chart_close", "done"}
                 \/ (pc = "failed" /\ written # <<>>)

C7_MissingColumnFails ==
  (Enumerated /\ \E k \in DOMAIN csv_files : fs[csv_files[k]].columns # Columns) =>
    /\ pc # "done"
    /\ pc = "failed" =>
         /\ error = "ColumnNotFoundError"
         /\ fs[csv_files[i]].columns # Columns
         /\ ~ENABLED Next
    /\ \A k \in DOMAIN csv_files :
         /\ k <= Loaded => ~Lacks(fs[csv_files[k]], LoadColumns)
         /\ (InChartLoop /\ k < i) => ~Lacks(fs[csv_files[k]], ChartColumns)
    /\ \A k \in DOMAIN csv_files : \A p \in Range(written) :
         IsChartOf(p, csv_files[k]) => fs[csv_files[k]].columns = Columns

\* a failure in the second loop, after a well-formed file was charted
C7_Witness ==
  /\ pc = "failed" /\ error = "ColumnNotFoundError"
  /\ i = 2 /\ Len(written) = 2
  /\ "active_file" \notin fs[csv_files[i]].columns

(***************************************************************************)
(* C8: at most one figure is open in any state; none is open when a file   *)
(* is about to be read in the per-file loop or when a per-file figure is   *)
(* about to be opened, and none is left open when the run has ended.       *)
(***************************************************************************)
C8_FiguresReleased ==
  /\ Len(figures) <= 1
  /\ pc \in {"chart", "chart_plot"} => figures = <<>>
  /\ pc \in {"glob", "load"} => figures = <<>>
  /\ Ended => figures = <<>>

C8_Witness == pc = "done" /\ N = 2 /\ Len(written) = 3 /\ figures = <<>>

(***************************************************************************)
(* C9: a figure is open or an image written only after every enumerated    *)
(* file has been loaded; the first image written is the combined one, so   *)
(* a per-file image is always preceded by it; and a run with no file or    *)
(* with a file lacking one of the three pooled columns writes no image.    *)
(***************************************************************************)
C9_PhaseOrder ==
  /\ (figures # <<>> \/ written # <<>>) =>
       /\ pc \notin {"glob", "load"}
       /\ Len(all_points) = Len(RawPool("timestamp", N))
  /\ written # <<>> => IsCombined(written[1])
  /\ \A j \in DOMAIN written :
       (\E k \in DOMAIN csv_files : IsChartOf(written[j], csv_files[k])) => j > 1
  /\ (Enumerated /\ (N = 0 \/ \E k \in DOMAIN csv_files :
                                 Lacks(fs[csv_files[k]], LoadColumns))) =>
       written = <<>> /\ figures = <<>>

C9_Witness ==
  /\ Len(written) = 2
  /\ IsCombined(written[1])
  /\ IsChartOf(written[2], csv_files[1])

(***************************************************************************)
(* C10: the mean series computed by the run equal those computed from any  *)
(* other enumeration order of the same files with any other order of the   *)
(* rows inside each file, and the memory and swap series have the same     *)
(* timestamps.                                                             *)
(***************************************************************************)
RowOrders(order) ==
  {r \in [DOMAIN order ->
            UNION {Orderings(DOMAIN fs[order[m]].rows) : m \in DOMAIN order}] :
     \A m \in DOMAIN order : Len(r[m]) = Len(fs[order[m]].rows)}

Reordered(order, rows, c) ==
  LET RECURSIVE Pool(_)
      Pool(m) ==
        IF m = 0 THEN <<>>
        ELSE LET df == fs[order[m]]
                 perm == rows[m]
             IN  Pool(m - 1) \o
                 [j \in DOMAIN df.rows |->
                    <<df.rows[perm[j]]["timestamp"], ToMB(df.rows[perm[j]][c])>>]
  IN  Pool(Len(order))

C10_OrderIndependent ==
  pc = "combined_save" =>
    /\ mem_mean_x = swap_mean_x
    /\ \A order \in Orderings(Range(csv_files)) :
         \A rows \in RowOrders(order) :
           /\ MeanX(Reordered(order, rows, "current_memory_usage")) = mem_mean_x
           /\ MeanY(Reordered(order, rows, "current_memory_usage")) = mem_mean_y
           /\ MeanX(Reordered(order, rows, "current_swap_usage")) = swap_mean_x
           /\ MeanY(Reordered(order, rows, "current_swap_usage")) = swap_mean_y

\* the run pooled timestamp 1 before timestamp 0, and two unequal samples at 0
C10_Witness ==
  /\ pc = "combined_save" /\ N = 2
  /\ all_points[1][1] = 1
  /\ mem_mean_x = <<0, 1>>
  /\ mem_mean_y[1] = <<3, 2>>

=============================================================================
